---------------------------- MODULE Spec2Model ----------------------------
(***************************************************************************)
(* A model of the Meshtastic bridge collector                               *)
(*   src/collector/meshtastic-collector.py  (MeshtasticCollector)           *)
(*   src/db_connection.py                   (RobustDBConnection)            *)
(*                                                                          *)
(* Two specifications share the module:                                     *)
(*   Spec       the collector: the transport's callback thread (on_receive) *)
(*              and the main thread (connect, the periodic sweep, cleanup)  *)
(*              working on node_details / mesh_packet_metrics through one   *)
(*              autocommit connection;                                      *)
(*   StoreSpec  one RobustDBConnection serving execute_with_retry and       *)
(*              check_connection_health calls against a pool.               *)
(*                                                                          *)
(* Conventions.  A 32-bit unsigned number is a pair <<hi, lo>> of 16-bit    *)
(* words (TLC's integers are 32-bit signed, 4294967295 does not fit).  A    *)
(* Python str is a sequence of one-character strings, so that startswith,   *)
(* str() and slicing are computed and not assumed.  None and '' are both    *)
(* the empty sequence: every test the code makes on them is a truth test.   *)
(***************************************************************************)
EXTENDS Integers, Sequences, FiniteSets, TLC

VARIABLES
    node_details,         \* table node_details: str(node_id) -> row or NoRow
    mesh_packet_metrics,  \* table mesh_packet_metrics: sequence of rows, in insert order
    pending_nodes,        \* self.pending_nodes: the set of its keys
    nodes,                \* self.interface.nodes, the transport's roster
    stats,                \* self.stats (the counters the properties read)
    running,              \* self.running
    db_conn,              \* self.db_conn: "none", "open" or "closed"
    interface,            \* self.interface: "none", "open" or "closed"
    tx_aborted,           \* the connection sits in a failed transaction
    thread,               \* position and locals of the two threads: "ev" runs
                          \* on_receive, "mn" runs run()
    loaded,               \* the module body below line 571 has been executed
    escaped,              \* an exception left on_receive
    faults,               \* statement failures injected so far
    events,               \* events delivered so far
    announced,            \* history: the row the last direct identity upsert wrote
    signalled,            \* history: _signal_handler has run
    pool,                 \* RobustDBConnection.connection_pool
    server,               \* the database server as the store sees it
    call,                 \* the execute_with_retry call in progress
    hist,                 \* what the call in progress has done so far
    arg,                  \* the input a function of the collector is applied to
    ret                   \* what the function made of it

collectorVars == <<node_details, mesh_packet_metrics, pending_nodes, nodes, stats,
                   running, db_conn, interface, tx_aborted, thread, loaded, escaped,
                   faults, events, announced, signalled>>
storeVars == <<pool, server, call, hist>>
fnVars == <<arg, ret>>
\* what no step of the collector's two threads changes
otherVars == <<signalled, pool, server, call, hist, arg, ret>>
vars == <<node_details, mesh_packet_metrics, pending_nodes, nodes, stats,
          running, db_conn, interface, tx_aborted, thread, loaded, escaped,
          faults, events, announced, signalled, pool, server, call, hist, arg, ret>>

-----------------------------------------------------------------------------
(* Bounds of the model *)

MaxEvents == 2      \* events the transport delivers in one run
MaxFaults == 1      \* statements that fail although the connection is open

-----------------------------------------------------------------------------
(* Numbers and strings *)

U32(hi, lo) == <<hi, lo>>
ZERO == U32(0, 0)
BROADCAST == U32(65535, 65535)          \* 4294967295
\* the nodes heard on the mesh: Node1 (12345678) sends, Node2 (2) is addressed
Node1 == U32(188, 24910)
Node2 == U32(0, 2)
NodeIds == {Node1, Node2}
Truthy(x) == x # ZERO

Digit == <<"0", "1", "2", "3", "4", "5", "6", "7", "8", "9">>

\* x div 10 and x mod 10 of a two-word number, by long division
Div10(x) == U32(x[1] \div 10, (((x[1] % 10) * 65536) + x[2]) \div 10)
Mod10(x) == (((x[1] % 10) * 65536) + x[2]) % 10

\* str() of a number: its decimal digits
Decimal[x \in (0..65535) \X (0..65535)] ==
    IF x[1] = 0 /\ x[2] < 10 THEN <<Digit[x[2] + 1]>>
    ELSE Decimal[Div10(x)] \o <<Digit[Mod10(x) + 1]>>
Str(x) == Decimal[x]

StartsWith(s, p) == Len(s) >= Len(p) /\ SubSeq(s, 1, Len(p)) = p
Last4(s) == IF Len(s) <= 4 THEN s ELSE SubSeq(s, Len(s) - 3, Len(s))

NodeDash == <<"N", "o", "d", "e", "-">>
TempLong(id) == NodeDash \o Str(id)            \* f'Node-{node_id_str}'
TempShort(id) == <<"N">> \o Last4(Str(id))     \* f'N{node_id_str[-4:]}'
None == <<>>


HexDigit == <<"0", "1", "2", "3", "4", "5", "6", "7", "8", "9",
              "a", "b", "c", "d", "e", "f">>
HexVal(c) == CHOOSE v \in 0..15 : HexDigit[v + 1] = c
IsHex(s) == Len(s) > 0 /\ \A i \in 1..Len(s) : \E v \in 0..15 : HexDigit[v + 1] = s[i]

\* x * 16 + d on two 16-bit words (the roster's keys have eight hex digits)
Shift4(x, d) == U32(((x[1] * 16) + (x[2] \div 4096)) % 65536, ((x[2] % 4096) * 16) + d)

RECURSIVE ParseHex(_, _)
ParseHex(s, acc) == IF s = <<>> THEN acc
                    ELSE ParseHex(Tail(s), Shift4(acc, HexVal(Head(s))))

Hex4(w) == <<HexDigit[(w \div 4096) + 1], HexDigit[((w \div 256) % 16) + 1],
             HexDigit[((w \div 16) % 16) + 1], HexDigit[(w % 16) + 1]>>
HexId(id) == <<"!">> \o Hex4(id[1]) \o Hex4(id[2])     \* the transport's '!%08x' key

-----------------------------------------------------------------------------
(* Characters, UTF-8, and the wire form and the debug text of a User        *)
(* message (meshtastic.mesh_pb2.User: long_name = 2, short_name = 3,        *)
(* hw_model = 5).  Bytes are numbers 0..255.                                *)

\* the printable ASCII characters: codes 32 (' ') to 95, and 97 to 126
ASCII == <<" ", "!", "\"", "#", "$", "%", "&", "'", "(", ")", "*", "+", ",", "-", ".", "/",
           "0", "1", "2", "3", "4", "5", "6", "7", "8", "9", ":", ";", "<", "=", ">", "?",
           "@", "A", "B", "C", "D", "E", "F", "G", "H", "I", "J", "K", "L", "M", "N", "O",
           "P", "Q", "R", "S", "T", "U", "V", "W", "X", "Y", "Z", "[", "\\", "]", "^", "_">>
ASCII_LOWER == <<"a", "b", "c", "d", "e", "f", "g", "h", "i", "j", "k", "l", "m", "n", "o", "p",
                 "q", "r", "s", "t", "u", "v", "w", "x", "y", "z", "{", "|", "}", "~">>

EACUTE == "é"                       \* U+00E9, two bytes in UTF-8
CodePoint(c) == IF c = EACUTE THEN 233
                ELSE IF c = "\n" THEN 10
                ELSE IF c = "\t" THEN 9
                ELSE IF \E i \in 1..Len(ASCII) : ASCII[i] = c
                THEN 31 + (CHOOSE i \in 1..Len(ASCII) : ASCII[i] = c)
                ELSE 96 + (CHOOSE i \in 1..Len(ASCII_LOWER) : ASCII_LOWER[i] = c)
Chr(cp) == IF cp = 233 THEN EACUTE
           ELSE IF cp = 10 THEN "\n"
           ELSE IF cp = 9 THEN "\t"
           ELSE IF cp \in 32..95 THEN ASCII[cp - 31]
           ELSE IF cp \in 97..126 THEN ASCII_LOWER[cp - 96]
           ELSE "?"

\* str.encode('utf-8')
Utf8(cp) == IF cp < 128 THEN <<cp>>
            ELSE IF cp < 2048 THEN <<192 + (cp \div 64), 128 + (cp % 64)>>
            ELSE <<224 + (cp \div 4096), 128 + ((cp \div 64) % 64), 128 + (cp % 64)>>
RECURSIVE Utf8Encode(_)
Utf8Encode(s) == IF s = <<>> THEN <<>>
                 ELSE Utf8(CodePoint(Head(s))) \o Utf8Encode(Tail(s))

\* bytes.decode('utf-8') of one- and two-byte sequences
RECURSIVE Utf8Decode(_)
Utf8Decode(b) ==
    IF b = <<>> THEN [ok |-> TRUE, text |-> <<>>]
    ELSE IF b[1] < 128
    THEN LET r == Utf8Decode(Tail(b))
         IN  [ok |-> r.ok, text |-> <<Chr(b[1])>> \o r.text]
    ELSE IF b[1] \in 192..223 /\ Len(b) >= 2 /\ b[2] \in 128..191
    THEN LET r == Utf8Decode(Tail(Tail(b)))
         IN  [ok |-> r.ok, text |-> <<Chr(((b[1] - 192) * 64) + (b[2] - 128))>> \o r.text]
    ELSE [ok |-> FALSE, text |-> <<>>]

\* protobuf base-128 varints
RECURSIVE Varint(_)
Varint(n) == IF n < 128 THEN <<n>> ELSE <<128 + (n % 128)>> \o Varint(n \div 128)
RECURSIVE ReadVarint(_)
ReadVarint(b) ==
    IF b = <<>> THEN [ok |-> FALSE, value |-> 0, rest |-> <<>>]
    ELSE IF b[1] < 128 THEN [ok |-> TRUE, value |-> b[1], rest |-> Tail(b)]
    ELSE LET r == ReadVarint(Tail(b))
         IN  [ok |-> r.ok, value |-> (b[1] - 128) + (128 * r.value), rest |-> r.rest]

\* User.SerializeToString(): proto3 leaves out empty strings and zeros
LengthDelimited(field, b) == <<(field * 8) + 2>> \o Varint(Len(b)) \o b
SerializeToString(l, s, h) ==
    (IF l # <<>> THEN LengthDelimited(2, Utf8Encode(l)) ELSE <<>>)
    \o (IF s # <<>> THEN LengthDelimited(3, Utf8Encode(s)) ELSE <<>>)
    \o (IF h # 0 THEN <<5 * 8>> \o Varint(h) ELSE <<>>)

\* user_info.ParseFromString(payload), line 151: the fields in wire order;
\* a truncated field, bad UTF-8 or an unknown wire type is a DecodeError
NoUser == [ok |-> TRUE, long_name |-> <<>>, short_name |-> <<>>, hw_model |-> 0]
RECURSIVE ParseFromString(_, _)
ParseFromString(b, msg) ==
    LET bad == [msg EXCEPT !.ok = FALSE]
        tag == ReadVarint(b)
        field == tag.value \div 8
        wire == tag.value % 8
    IN  IF b = <<>> THEN msg
        ELSE IF ~tag.ok \/ field = 0 THEN bad
        ELSE IF wire = 0
        THEN LET v == ReadVarint(tag.rest)
             IN  IF ~v.ok THEN bad
                 ELSE ParseFromString(v.rest, IF field = 5
                                              THEN [msg EXCEPT !.hw_model = v.value]
                                              ELSE msg)
        ELSE IF wire = 2
        THEN LET n == ReadVarint(tag.rest)
             IN  IF ~n.ok \/ Len(n.rest) < n.value THEN bad
                 ELSE LET body == SubSeq(n.rest, 1, n.value)
                          rest == SubSeq(n.rest, n.value + 1, Len(n.rest))
                          d == Utf8Decode(body)
                      IN  IF field \in {2, 3} /\ ~d.ok THEN bad
                          ELSE ParseFromString(rest,
                                   IF field = 2 THEN [msg EXCEPT !.long_name = d.text]
                                   ELSE IF field = 3 THEN [msg EXCEPT !.short_name = d.text]
                                   ELSE msg)
        ELSE bad

\* str(message): protobuf's text format, one 'name: "value"' line per string
\* field that is set, the value C-escaped (a quote as \", a backslash as \\,
\* every byte above 127 as a backslash and three octal digits).  The
\* hw_model line, which the decoder does not read, is left out.
LONG_KEY == <<"l", "o", "n", "g", "_", "n", "a", "m", "e", ":">>
SHORT_KEY == <<"s", "h", "o", "r", "t", "_", "n", "a", "m", "e", ":">>
Octal(b) == <<"\\", Digit[(b \div 64) + 1], Digit[((b \div 8) % 8) + 1], Digit[(b % 8) + 1]>>
CEscape(c) == IF c = "\"" THEN <<"\\", "\"">>
              ELSE IF c = "\\" THEN <<"\\", "\\">>
              ELSE IF c = "'" THEN <<"\\", "'">>
              ELSE IF c = "\n" THEN <<"\\", "n">>
              ELSE IF c = "\t" THEN <<"\\", "t">>
              ELSE IF CodePoint(c) >= 128
              THEN LET b == Utf8(CodePoint(c)) IN Octal(b[1]) \o Octal(b[2])
              ELSE <<c>>
RECURSIVE EscapeText(_)
EscapeText(s) == IF s = <<>> THEN <<>> ELSE CEscape(Head(s)) \o EscapeText(Tail(s))
TextLine(key, value) == key \o <<" ", "\"">> \o EscapeText(value) \o <<"\"", "\n">>
DebugString(l, s) ==
    (IF l # <<>> THEN TextLine(LONG_KEY, l) ELSE <<>>)
    \o (IF s # <<>> THEN TextLine(SHORT_KEY, s) ELSE <<>>)

\* key in payload_str, line 162
Contains(text, key) ==
    \E i \in 1..(Len(text) - Len(key) + 1) : SubSeq(text, i, i + Len(key) - 1) = key

\* re.search(key + r'\s*"([^"]+)"', payload_str), lines 164-165: group 1 of
\* the leftmost match, None without a match.  Nothing is unescaped.
IsSpace(c) == c \in {" ", "\n", "\t"}
RegexSearch(text, key) ==
    LET n == Len(text)
        First(S) == CHOOSE j \in S : \A k \in S : j <= k
        \* the first character after the key that is not white space
        Open(i) == First({j \in (i + Len(key))..(n + 1) : j = n + 1 \/ ~IsSpace(text[j])})
        \* the first quote after position j
        Close(j) == First({k \in (j + 1)..(n + 1) : k = n + 1 \/ text[k] = "\""})
        Match(i) == /\ SubSeq(text, i, i + Len(key) - 1) = key
                    /\ Open(i) <= n
                    /\ text[Open(i)] = "\""
                    /\ Close(Open(i)) <= n
                    /\ Close(Open(i)) > Open(i) + 1
        hits == {i \in 1..(n - Len(key) + 1) : Match(i)}
    IN  IF hits = {} THEN <<>>
        ELSE SubSeq(text, Open(First(hits)) + 1, Close(Open(First(hits))) - 1)

-----------------------------------------------------------------------------
(* The static hardware table and get_hardware_model_name.  The table is     *)
(* restricted to the codes the model draws as inputs.                       *)

HwCodes == {0, 9, 300}
HARDWARE_MODELS == [c \in {0, 9} |-> IF c = 0 THEN "UNSET" ELSE "RAK4631"]

get_hardware_model_name(hardware_value) ==
    IF hardware_value \in DOMAIN HARDWARE_MODELS
    THEN HARDWARE_MODELS[hardware_value]
    ELSE "UNKNOWN_HW_" \o ToString(hardware_value)

-----------------------------------------------------------------------------
(* The roster: self.interface.nodes.  A key is an int or a str ('!' and     *)
(* hex digits); the model holds at most one key per node.                   *)

Syd == <<"S", "y", "d">>
Bns == <<"S", "y", "d", "n", "e", "y", "-", "B", "N", "S", "1">>     \* 'Sydney-BNS1'
S1 == <<"S", "1">>
B1 == <<"B", "N", "S", "1">>                                        \* 'BNS1'
NED == <<"N", "E", "D">>

IntKey(id) == [text |-> <<>>, kind |-> "int", num |-> id]
StrKey(id) == [text |-> HexId(id), kind |-> "str", num |-> ZERO]
\* a position as the roster reports it: <<longitude, latitude, altitude>>
NoPosition == <<>>
Here == <<151, -33, 58>>
\* role "" stands for an entry without a 'role'
NoInfo == [key |-> [text |-> <<>>, kind |-> "none", num |-> ZERO],
           longName |-> None, shortName |-> None, hwModel |-> 0,
           role |-> "", position |-> NoPosition]

\* What the transport may hold for a node: Node1 under its number with both
\* names or under its '!hex' key with a long name only, Node2 under its
\* number with both names.
RosterInfos(id) ==
    IF id = Node1
    THEN {[key |-> IntKey(id), longName |-> Syd, shortName |-> S1, hwModel |-> 9,
           role |-> "ROUTER", position |-> Here],
          [key |-> StrKey(id), longName |-> Syd, shortName |-> None, hwModel |-> 0,
           role |-> "", position |-> NoPosition]}
    ELSE {[key |-> IntKey(id), longName |-> Syd, shortName |-> S1, hwModel |-> 9,
           role |-> "ROUTER", position |-> Here]}

\* node_id in self.interface.nodes, for the int node_id the callers pass
InNodes(id) == nodes[id].key = IntKey(id)
\* self.interface.nodes[node_id] when present, {} otherwise
NodeInfoOf(id) == IF InNodes(id) THEN nodes[id] ELSE NoInfo

-----------------------------------------------------------------------------
(* Inbound events *)

\* decoded['payload'].  shape says what the object is: "none" (None or no
\* such key), "attrs" (an object with long_name, short_name and hw_model
\* attributes), "dict", "bytes", "str", or "other" (an object that is none
\* of these).  A dict holds its snake_case and its camelCase keys, a key
\* that is missing reading as None; bytes, str and other objects hold their
\* bytes, their characters and the characters of their str() in data.
NoPayload == [long_name |-> None, short_name |-> None, hw_model |-> 0, longName |-> None,
              shortName |-> None, hwModel |-> 0, shape |-> "none", data |-> <<>>]
AttrPayload(l, s, h) == [NoPayload EXCEPT !.shape = "attrs", !.long_name = l,
                                          !.short_name = s, !.hw_model = h]
DictPayload(l, s, h) == [NoPayload EXCEPT !.shape = "dict", !.long_name = l,
                                          !.short_name = s, !.hw_model = h]
CamelPayload(l, s, h) == [NoPayload EXCEPT !.shape = "dict", !.longName = l,
                                           !.shortName = s, !.hwModel = h]
BytesPayload(b) == [NoPayload EXCEPT !.shape = "bytes", !.data = b]
StrPayload(t) == [NoPayload EXCEPT !.shape = "str", !.data = t]
OtherPayload == [NoPayload EXCEPT !.shape = "other", !.data = <<"4", "2">>]

\* ADVANCED_CONFIG['packet_size_limit'], config.example.py line 66
packet_size_limit == 1024
\* a binary payload of one byte more than that
BigPayload == BytesPayload([i \in 1..(packet_size_limit + 1) |-> 0])

Payloads == {NoPayload,
             DictPayload(Bns, B1, 9),                        \* a real identity
             DictPayload(TempLong(Node1), TempShort(Node1), 0),  \* placeholder names
             DictPayload(Bns, NED, 300),                     \* short name starts with N
             DictPayload(Bns, None, 9),                      \* no short name
             OtherPayload}                                   \* no shape that is known

PortAbsent == [s |-> "", n |-> 0, kind |-> "absent"]
PortInt(k) == [s |-> "", n |-> k, kind |-> "int"]
PortStr(t) == [s |-> t, n |-> 0, kind |-> "str"]

\* Identity announcements of Node1, packets of other kinds from Node1 or
\* from nobody to Node2, to all or to nobody (a text message, a packet with
\* portnum 0 and no payload, a private application's oversized binary
\* payload), and an event whose 'decoded' entry is not a mapping
\* (decoded = "none").
Packets ==
    {[from |-> Node1, to |-> BROADCAST, decoded |-> "dict",
      portnum |-> PortStr("NODEINFO_APP"), payload |-> p] : p \in Payloads}
    \cup
    {[from |-> Node1, to |-> Node2, decoded |-> "dict",
      portnum |-> PortStr("TEXT_MESSAGE_APP"), payload |-> NoPayload],
     [from |-> Node1, to |-> BROADCAST, decoded |-> "dict",
      portnum |-> PortInt(0), payload |-> NoPayload],
     [from |-> Node1, to |-> BROADCAST, decoded |-> "dict",
      portnum |-> PortInt(300), payload |-> BigPayload]}
    \cup
    {[from |-> ZERO, to |-> ZERO, decoded |-> "dict", portnum |-> PortAbsent,
      payload |-> NoPayload],
     [from |-> Node1, to |-> BROADCAST, decoded |-> "none", portnum |-> PortAbsent,
      payload |-> NoPayload]}

NoPacket == [from |-> ZERO, to |-> ZERO, decoded |-> "dict", portnum |-> PortAbsent,
             payload |-> NoPayload]

-----------------------------------------------------------------------------
(* The two tables.  node_details is keyed by str(node_id); of its columns   *)
(* the model keeps the three that the identity paths write, the role and    *)
(* the position (longitude, latitude, altitude).                            *)

StrIds == {Str(id) : id \in NodeIds}
NoRow == [long_name |-> None, short_name |-> None, role |-> "", position |-> NoPosition,
          present |-> FALSE, hardware_model |-> "", mqtt_status |-> "",
          created_at |-> 0, updated_at |-> 0]
\* datetime.now(timezone.utc), on the clock of the events received so far
Now == events
\* a row with the role, the status, the position and the two timestamps the
\* direct upsert inserts
Row(l, s, h) == [long_name |-> l, short_name |-> s, role |-> "CLIENT", position |-> NoPosition,
                 present |-> TRUE, hardware_model |-> h, mqtt_status |-> "unknown",
                 created_at |-> Now, updated_at |-> Now]

\* long_name LIKE 'Node-%'
LikeNodeDash(row) == StartsWith(row.long_name, NodeDash)

\* psycopg2.connect(...); self.db_conn.autocommit = True
AUTOCOMMIT == TRUE

\* A statement can succeed only on an open connection outside a failed
\* transaction; it can fail at any time (up to MaxFaults injected failures).
DbUsable == db_conn = "open" /\ ~tx_aborted
Outcomes == {o \in {"ok", "fail"} :
                /\ o = "ok" => DbUsable
                /\ o = "fail" => (~DbUsable \/ faults < MaxFaults)}
AfterStmt(o) ==
    /\ faults' = IF o = "fail" /\ DbUsable THEN faults + 1 ELSE faults
    /\ tx_aborted' = (tx_aborted \/ (o = "fail" /\ db_conn = "open" /\ ~AUTOCOMMIT))

\* cursor.execute(query, args) merges the arguments into the text of the
\* statement before anything is sent: every '%' of the text that is not
\* followed by '%' takes the next argument of the tuple.  IndexError when
\* the tuple has no next argument, TypeError when arguments are left over,
\* ValueError for a conversion other than %s.  A statement is given by the
\* characters that follow its '%' signs.
MergeError(formats, args) ==
    LET taking == {i \in 1..Len(formats) : formats[i] # "%"}
    IN  IF Cardinality(taking) > Len(args) THEN "IndexError"
        ELSE IF Cardinality(taking) < Len(args) THEN "TypeError"
        ELSE IF \E i \in taking : formats[i] # "s" THEN "ValueError"
        ELSE "none"

\* UPDATE node_details SET long_name = %s, short_name = %s, updated_at = %s
\* WHERE node_id = %s AND long_name LIKE 'Node-%', lines 267-276 and
\* 400-409: four %s and the '%' of the LIKE pattern, for four arguments
UPDATE_FORMATS == <<"s", "s", "s", "s", "'">>
UPDATE_ARGS == <<"long_name", "short_name", "updated_at", "node_id">>
\* the statement with its '%' written '%%': the merge raises nothing
MergedUpdate == MergeError(<<"s", "s", "s", "s", "%">>, UPDATE_ARGS)
UpdateError == MergeError(UPDATE_FORMATS, UPDATE_ARGS)

\* len(payload) of bytes and of a str alike: a str counted in characters
CharCount(payload) ==
    IF payload.shape \in {"bytes", "str"} THEN Len(payload.data) ELSE 0

\* lines 447-453: len(payload) of bytes, len(payload.encode('utf-8')) of a
\* str, 0 for every other payload and without one
PayloadSize(payload) ==
    IF payload.shape = "bytes" THEN Len(payload.data)
    ELSE IF payload.shape = "str" THEN Len(Utf8Encode(payload.data))
    ELSE 0

-----------------------------------------------------------------------------
(* Thread-local state *)

Local(pc) == [role |-> "", position |-> NoPosition, pc |-> pc, pkt |-> NoPacket,
              target |-> ZERO, long |-> None, short |-> None, hw |-> "",
              payload_size |-> 0, todo |-> <<>>, size0 |-> 0, checked |-> 0,
              failed |-> FALSE, errs0 |-> 0, stored |-> FALSE, nodecode |-> FALSE,
              late |-> FALSE, ident |-> <<>>, added |-> FALSE]

\* a local whose value is not read again is reset
Forget(l) == [l EXCEPT !.target = ZERO, !.long = None, !.short = None, !.hw = "",
                        !.role = "", !.position = NoPosition, !.added = FALSE]
\* the names inside a payload are read by process_nodeinfo_payload only;
\* process_packet reads its type and its length, lines 447-453.  A payload
\* that has been read (shape "read") is kept as its payload_size.
Parsed(l) == IF l.pkt.payload.shape = "read" THEN l
             ELSE [l EXCEPT !.payload_size = PayloadSize(l.pkt.payload),
                            !.pkt.payload = [NoPayload EXCEPT !.shape = "read"]]
\* on_receive is over: what is left is whether a step of it failed, the
\* error counter it began with, whether its metric row was inserted,
\* whether its identity payload gave no result, and the identity the event
\* announced
Over(l) == [Local("done") EXCEPT !.failed = l.failed, !.errs0 = l.errs0,
                                 !.stored = l.stored, !.nodecode = l.nodecode,
                                 !.ident = l.ident]

ev == thread["ev"]
mn == thread["mn"]
SetThread(t, l) == thread' = [thread EXCEPT ![t] = l]

\* the number of entries which may be checked in one sweep cycle
MAX_CHECKS == 20


\* the counters after a step: r.err errors and r.upd direct identity updates
Bump(rcv, sto, r) ==
    stats' = [packets_received |-> stats.packets_received + rcv,
              packets_stored |-> stats.packets_stored + sto,
              packets_errors |-> stats.packets_errors + r.err,
              nodeinfo_direct_updates |-> stats.nodeinfo_direct_updates + r.upd]

-----------------------------------------------------------------------------
(* Exception handlers.  Each names the exception classes its except clause  *)
(* catches; every class the model raises derives from Exception.            *)

EXCEPTIONS == {"AttributeError", "KeyError", "NameError", "RuntimeError",
               "IndexError", "TypeError", "ValueError",
               "OperationalError", "InterfaceError", "IntegrityError"}
\* what a failing statement raises
StmtError == IF db_conn = "open" THEN "OperationalError" ELSE "InterfaceError"

\* an except clause for database errors only
catches_db_errors(e) == e \in {"OperationalError", "InterfaceError", "IntegrityError"}

on_receive_catches(e) == e \in EXCEPTIONS              \* except Exception
nodeinfo_catches(e) == e \in EXCEPTIONS                \* except Exception
check_catches(e) == e \in EXCEPTIONS                   \* except Exception
ensure_catches(e) == e \in EXCEPTIONS                  \* IntegrityError, then Exception
packet_catches(e) == e \in EXCEPTIONS                  \* except Exception

\* The outcome of a step of the callback thread: its locals, the errors it
\* counts, and whether an exception left on_receive.
Res(l) == [l |-> l, err |-> 0, upd |-> 0, esc |-> FALSE]
\* exception e reaches the except clause of on_receive
Uncaught(l, e) ==
    IF on_receive_catches(e)
    THEN [Res(Over(l)) EXCEPT !.err = 1]
    ELSE [Res([Over(l) EXCEPT !.pc = "dead"]) EXCEPT !.esc = TRUE]

-----------------------------------------------------------------------------
(* process_nodeinfo_payload, lines 113-188: the payload's names *)

\* not payload, line 116: None, b'' and ''
Falsy(payload) == payload.shape = "none"
                  \/ (payload.shape \in {"bytes", "str"} /\ payload.data = <<>>)

NoResult == [ok |-> FALSE, long |-> None, short |-> None, hw |-> "", raised |-> FALSE]
Names(l, s, h) == [ok |-> TRUE, long |-> l, short |-> s, hw |-> h, raised |-> FALSE]
\* an exception inside the function: get_hardware_model_name called before
\* the module has defined it (NameError), or a DecodeError
Raises == [NoResult EXCEPT !.raised = TRUE]

\* lines 125-178, the four access methods: the names and the hardware
\* label as extracted, ok = FALSE where the function returns False (or
\* raises, which its handlers turn into False)
Extract(payload) ==
    IF Falsy(payload) THEN NoResult
    ELSE IF payload.shape = "attrs"
    THEN IF ~loaded THEN Raises                                       \* line 135
         ELSE Names(payload.long_name, payload.short_name,
                    get_hardware_model_name(payload.hw_model))
    ELSE IF payload.shape = "dict"
    THEN IF ~loaded THEN Raises                                       \* line 142
         ELSE Names(IF payload.long_name # None THEN payload.long_name
                    ELSE payload.longName,
                    IF payload.short_name # None THEN payload.short_name
                    ELSE payload.shortName,
                    get_hardware_model_name(IF payload.hw_model # 0 THEN payload.hw_model
                                            ELSE payload.hwModel))
    ELSE IF payload.shape = "bytes"
    THEN LET user_info == ParseFromString(payload.data, NoUser)
         IN  IF ~user_info.ok THEN Raises                             \* DecodeError
             ELSE IF user_info.hw_model = 0
             THEN Names(user_info.long_name, user_info.short_name, "UNKNOWN")
             ELSE IF ~loaded THEN Raises                              \* line 154
             ELSE Names(user_info.long_name, user_info.short_name,
                        get_hardware_model_name(user_info.hw_model))
    ELSE LET payload_str == payload.data
             long_match == RegexSearch(payload_str, LONG_KEY)
             short_match == RegexSearch(payload_str, SHORT_KEY)
         IN  IF /\ Contains(payload_str, LONG_KEY) /\ Contains(payload_str, SHORT_KEY)
                /\ long_match # None /\ short_match # None
             THEN Names(long_match, short_match, "UNKNOWN")
             ELSE NoResult                                            \* line 174

\* the identity is taken as extracted, without the checks of lines 181-188
ParseNodeinfoUnchecked(payload) == Extract(payload)

\* process_nodeinfo_payload up to its statement, lines 113-188
ParseNodeinfo(payload) ==
    LET x == Extract(payload)
    IN  IF ~x.ok THEN x
        ELSE IF x.long = None \/ x.short = None THEN NoResult
        ELSE IF StartsWith(x.long, NodeDash) \/ StartsWith(x.short, <<"N">>) THEN NoResult
        ELSE x

\* process_packet up to its first statement
PacketStart(l) ==
    IF ~Truthy(l.pkt.from) THEN Over(l)
    ELSE [Forget(Parsed(l)) EXCEPT !.pc = "src_select", !.target = l.pkt.from]

\* check_and_update_node up to its statement, then process_packet
FallbackStart(l) ==
    LET id == l.pkt.from
        info == NodeInfoOf(id)
    IN  IF InNodes(id) /\ info.longName # None /\ ~StartsWith(info.longName, NodeDash)
        THEN [Parsed(l) EXCEPT !.pc = "fb_update", !.target = id, !.long = info.longName,
                               !.short = IF info.shortName # None THEN info.shortName
                                         ELSE TempShort(id)]
        ELSE PacketStart(l)

\* on_receive up to the first statement of the event
Dispatch(l) ==
    LET p == l.pkt
    IN  IF p.decoded = "none" THEN Uncaught(l, "AttributeError")
        ELSE IF p.portnum = PortStr("NODEINFO_APP") /\ Truthy(p.from)
        THEN LET d == ParseNodeinfo(p.payload)
             IN  IF d.ok
                 THEN Res([Parsed(l) EXCEPT !.pc = "ni_upsert", !.target = p.from,
                                            !.long = d.long, !.short = d.short,
                                            !.hw = d.hw])
                 ELSE IF d.raised
                 THEN IF nodeinfo_catches("NameError")
                      THEN Res(FallbackStart([l EXCEPT !.failed = TRUE,
                                                       !.nodecode = TRUE]))
                      ELSE Uncaught(l, "NameError")
                 ELSE Res(FallbackStart([l EXCEPT !.nodecode = TRUE]))
        ELSE Res(PacketStart(l))

ApplyEv(r, rcv, sto) ==
    /\ SetThread("ev", r.l)
    /\ Bump(rcv, sto, r)
    /\ escaped' = (escaped \/ r.esc)

\* the connection of line 237 has been lost
ConnectionLost == db_conn = "broken"

\* the identity a packet announces: the names and the hardware code of a
\* NODEINFO_APP payload that is a dict with snake_case keys, <<>> otherwise
Announced(p) ==
    IF p.portnum = PortStr("NODEINFO_APP") /\ p.payload.shape = "dict"
    THEN <<p.payload.long_name, p.payload.short_name, p.payload.hw_model>>
    ELSE <<>>

\* The transport delivers packet p: on_receive, lines 86-106.  late: the
\* event comes after an outage, the database being reachable again.
Receive(p) ==
    /\ ev.pc = "idle"
    /\ interface = "open"
    /\ events < MaxEvents
    /\ events' = events + 1
    /\ ApplyEv(Dispatch([Local("idle") EXCEPT !.pkt = p, !.errs0 = stats.packets_errors,
                                              !.late = ConnectionLost /\ server.up,
                                              !.ident = Announced(p)]), 1, 0)
    /\ UNCHANGED <<node_details, mesh_packet_metrics, pending_nodes, nodes, running,
                   db_conn, interface, tx_aborted, loaded, faults, announced, otherVars>>

\* the INSERT with ON CONFLICT (node_id) DO NOTHING
InsertOnly(l) ==
    IF node_details[Str(l.target)].present THEN node_details
    ELSE [node_details EXCEPT ![Str(l.target)] = Row(l.long, l.short, l.hw)]

\* the upsert with short_name = node_details.long_name in its DO UPDATE
UpsertFromRow(l) ==
    IF node_details[Str(l.target)].present
    THEN [node_details EXCEPT ![Str(l.target)].long_name = l.long,
                              ![Str(l.target)].short_name = node_details[Str(l.target)].long_name,
                              ![Str(l.target)].hardware_model = l.hw]
    ELSE [node_details EXCEPT ![Str(l.target)] = Row(l.long, l.short, l.hw)]

\* the upsert with every column of the VALUES list in its DO UPDATE
UpsertEveryColumn(l) ==
    [node_details EXCEPT ![Str(l.target)] = Row(l.long, l.short, l.hw)]

\* INSERT ... ON CONFLICT (node_id) DO UPDATE SET short_name, long_name,
\* hardware_model, updated_at, lines 191-214
DirectUpsert(l) ==
    IF node_details[Str(l.target)].present
    THEN [node_details EXCEPT ![Str(l.target)].long_name = l.long,
                              ![Str(l.target)].short_name = l.short,
                              ![Str(l.target)].hardware_model = l.hw,
                              ![Str(l.target)].updated_at = Now]
    ELSE [node_details EXCEPT ![Str(l.target)] = Row(l.long, l.short, l.hw)]

NiUpsert ==
    /\ ev.pc = "ni_upsert"
    /\ \E o \in Outcomes :
        /\ AfterStmt(o)
        /\ IF o = "ok"
           THEN /\ node_details' = DirectUpsert(ev)
                /\ announced' = [announced EXCEPT ![Str(ev.target)] =
                                                     Row(ev.long, ev.short, ev.hw)]
                /\ ApplyEv([Res([ev EXCEPT !.pc = "ni_check"]) EXCEPT !.upd = 1], 0, 0)
           ELSE /\ UNCHANGED <<node_details, announced>>
                /\ ApplyEv(IF nodeinfo_catches(StmtError)
                           THEN Res(FallbackStart([ev EXCEPT !.failed = TRUE]))
                           ELSE Uncaught([ev EXCEPT !.failed = TRUE], StmtError), 0, 0)
    /\ UNCHANGED <<mesh_packet_metrics, pending_nodes, nodes, running, db_conn,
                   interface, loaded, events, otherVars>>

\* if node_id in self.pending_nodes, lines 221 and 283
PendingCheck ==
    /\ ev.pc \in {"ni_check", "fb_check"}
    /\ ApplyEv(Res(IF ev.target \in pending_nodes
                   THEN [ev EXCEPT !.pc = IF ev.pc = "ni_check" THEN "ni_del" ELSE "fb_del"]
                   ELSE PacketStart(ev)), 0, 0)
    /\ UNCHANGED <<node_details, mesh_packet_metrics, pending_nodes, nodes, running,
                   db_conn, interface, tx_aborted, loaded, faults, events, announced, otherVars>>

\* del self.pending_nodes[node_id], lines 222 and 284; KeyError when the
\* main thread has deleted the key since the test
PendingDel ==
    /\ ev.pc \in {"ni_del", "fb_del"}
    /\ pending_nodes' = pending_nodes \ {ev.target}
    /\ ApplyEv(IF ev.target \in pending_nodes THEN Res(PacketStart(ev))
               ELSE IF ev.pc = "ni_del"
               THEN IF nodeinfo_catches("KeyError") THEN Res(FallbackStart(ev))
                    ELSE Uncaught(ev, "KeyError")
               ELSE IF check_catches("KeyError") THEN Res(PacketStart(ev))
                    ELSE Uncaught(ev, "KeyError"), 0, 0)
    /\ UNCHANGED <<node_details, mesh_packet_metrics, nodes, running,
                   db_conn, interface, tx_aborted, loaded, faults, events, announced, otherVars>>

\* The UPDATE of lines 267-276 and 400-409 as the server would execute it:
\* the rows WHERE node_id = %s AND long_name LIKE 'Node-%' selects, and the
\* table after it
UpdateMatches(id) ==
    node_details[Str(id)].present /\ LikeNodeDash(node_details[Str(id)])
ConditionalUpdate(l) ==
    IF UpdateMatches(l.target)
    THEN [node_details EXCEPT ![Str(l.target)].long_name = l.long,
                              ![Str(l.target)].short_name = l.short,
                              ![Str(l.target)].updated_at = Now]
    ELSE node_details

\* check_and_update_node raises e at its statement: the handler of line 293
FbRaise(e) ==
    IF check_catches(e) THEN Res(PacketStart([ev EXCEPT !.failed = TRUE]))
    ELSE Uncaught([ev EXCEPT !.failed = TRUE], e)

\* cursor.execute of lines 266-276 and what follows it up to line 281
FbUpdate ==
    /\ ev.pc = "fb_update"
    /\ IF UpdateError # "none"
       THEN /\ ApplyEv(FbRaise(UpdateError), 0, 0)
            /\ UNCHANGED <<node_details, faults, tx_aborted>>
       ELSE \E o \in Outcomes :
            /\ AfterStmt(o)
            /\ IF o = "ok"
               THEN /\ node_details' = ConditionalUpdate(ev)
                    /\ ApplyEv(Res(IF UpdateMatches(ev.target)
                                   THEN [ev EXCEPT !.pc = "fb_check"]
                                   ELSE PacketStart(ev)), 0, 0)
               ELSE /\ UNCHANGED node_details
                    /\ ApplyEv(FbRaise(StmtError), 0, 0)
    /\ UNCHANGED <<mesh_packet_metrics, pending_nodes, nodes, running, db_conn,
                   interface, loaded, events, announced, otherVars>>


-----------------------------------------------------------------------------
(* ensure_node_exists, lines 298-367.  It runs on the callback thread for   *)
(* the source and the destination of a packet and on the main thread for    *)
(* the device's own node (connect, line 245).                               *)

MyNode == Node2            \* my_info.get('num')

\* ensure_node_exists for every destination that is set, the broadcast
\* address included
EnsureExitAll(l) ==
    IF l.pc \in {"src_select", "src_names", "src_insert"}
    THEN IF Truthy(l.pkt.to)
         THEN [Forget(l) EXCEPT !.pc = "dst_select", !.target = l.pkt.to]
         ELSE [Forget(l) EXCEPT !.pc = "pp_metric"]
    ELSE IF l.pc \in {"dst_select", "dst_names", "dst_insert"}
    THEN [Forget(l) EXCEPT !.pc = "pp_metric"]
    ELSE Local("loop")

\* where the caller goes on when ensure_node_exists returns
EnsureExit(l) ==
    IF l.pc \in {"src_select", "src_names", "src_insert"}
    THEN IF Truthy(l.pkt.to) /\ l.pkt.to # BROADCAST
         THEN [Forget(l) EXCEPT !.pc = "dst_select", !.target = l.pkt.to]
         ELSE [Forget(l) EXCEPT !.pc = "pp_metric"]
    ELSE IF l.pc \in {"dst_select", "dst_names", "dst_insert"}
    THEN [Forget(l) EXCEPT !.pc = "pp_metric"]
    ELSE Local("loop")                           \* connect returns True

AfterPc(pc) == CASE pc = "src_select" -> "src_names"
                 [] pc = "src_names" -> "src_insert"
                 [] pc = "dst_select" -> "dst_names"
                 [] pc = "dst_names" -> "dst_insert"
                 [] pc = "my_select" -> "my_names"
                 [] OTHER -> "my_insert"

\* lines 316-332: the names of the new row; a temporary long name puts the
\* node into pending_nodes before the INSERT is tried
TempNeeded(name, prefix) == name = None \/ StartsWith(name, prefix)
NewLong(id) == IF TempNeeded(NodeInfoOf(id).longName, NodeDash)
               THEN TempLong(id) ELSE NodeInfoOf(id).longName
NewShort(id) == IF TempNeeded(NodeInfoOf(id).shortName, <<"N">>)
                THEN TempShort(id) ELSE NodeInfoOf(id).shortName
PendingAfterNames(id) ==
    IF TempNeeded(NodeInfoOf(id).longName, NodeDash)
    THEN pending_nodes \cup {id} ELSE pending_nodes

\* thread t leaves step l of ensure_node_exists or of the statement after it
Step(t, r, rcv, sto) ==
    /\ SetThread(t, r.l)
    /\ Bump(rcv, sto, r)
    /\ escaped' = (escaped \/ r.esc)
    /\ running' = IF t = "mn" /\ r.l.pc = "loop" THEN TRUE ELSE running

\* an exception e inside ensure_node_exists on thread t
EnsureRaise(t, l, e) ==
    IF ensure_catches(e) THEN Res(EnsureExit([l EXCEPT !.failed = TRUE]))
    ELSE IF t = "ev" THEN Uncaught([l EXCEPT !.failed = TRUE], e)
    ELSE Res(Local("exited"))                     \* connect returns False

\* SELECT long_name FROM node_details WHERE node_id = %s, lines 304-314
EnsureSelect(t) ==
    /\ thread[t].pc \in {"src_select", "dst_select", "my_select"}
    /\ \E o \in Outcomes :
        /\ AfterStmt(o)
        /\ LET l == thread[t]
           IN  Step(t, IF o = "fail" THEN EnsureRaise(t, l, StmtError)
                       ELSE IF node_details[Str(l.target)].present THEN Res(EnsureExit(l))
                       ELSE Res([l EXCEPT !.pc = AfterPc(l.pc)]), 0, 0)
    /\ UNCHANGED <<node_details, mesh_packet_metrics, pending_nodes, nodes, db_conn,
                   interface, loaded, events, announced, otherVars>>

\* lines 316-332 and the arguments of the INSERT, lines 342-353: the roster
\* is read, pending_nodes written, get_hardware_model_name called.  added:
\* line 329 has made the node a key of pending_nodes, which it was not.
EnsureNames(t) ==
    /\ thread[t].pc \in {"src_names", "dst_names", "my_names"}
    /\ LET l == thread[t]
           id == l.target
       IN  /\ pending_nodes' = PendingAfterNames(id)
           /\ Step(t, IF loaded
                      THEN Res([l EXCEPT !.pc = AfterPc(l.pc),
                                         !.long = NewLong(id),
                                         !.short = NewShort(id),
                                         !.hw = get_hardware_model_name(
                                                    NodeInfoOf(id).hwModel),
                                         !.role = IF NodeInfoOf(id).role # ""
                                                  THEN NodeInfoOf(id).role
                                                  ELSE "CLIENT",
                                         !.position = NodeInfoOf(id).position,
                                         !.added = (id \notin pending_nodes
                                                    /\ id \in PendingAfterNames(id))])
                      ELSE EnsureRaise(t, l, "NameError"), 0, 0)
    /\ UNCHANGED <<node_details, mesh_packet_metrics, nodes, db_conn, interface,
                   tx_aborted, loaded, faults, events, announced, otherVars>>

\* INSERT INTO node_details ..., lines 335-354
EnsureInsert(t) ==
    /\ thread[t].pc \in {"src_insert", "dst_insert", "my_insert"}
    /\ \E o \in Outcomes :
        /\ AfterStmt(o)
        /\ LET l == thread[t]
               key == Str(l.target)
           IN  IF o = "fail"
               THEN /\ Step(t, EnsureRaise(t, l, StmtError), 0, 0)
                    /\ UNCHANGED node_details
               ELSE IF node_details[key].present          \* duplicate key
               THEN /\ Step(t, IF ensure_catches("IntegrityError")
                               THEN Res(EnsureExit(l))
                               ELSE EnsureRaise(t, l, "IntegrityError"), 0, 0)
                    /\ UNCHANGED node_details
               ELSE /\ node_details' = [node_details EXCEPT
                                            ![key] = [Row(l.long, l.short, l.hw) EXCEPT
                                                         !.role = l.role,
                                                         !.position = l.position]]
                    /\ Step(t, Res(EnsureExit(l)), 0, 0)
    /\ UNCHANGED <<mesh_packet_metrics, pending_nodes, nodes, db_conn, interface,
                   loaded, events, announced, otherVars>>

-----------------------------------------------------------------------------
(* process_packet, lines 437-503 *)

\* the classification with the private range beginning above 256
ClassifyAbove256(p) ==
    IF p.kind = "absent" \/ (p.kind = "int" /\ p.n = 0) THEN PortStr("UNKNOWN_APP")
    ELSE IF p.kind = "int" /\ p.n > 256 THEN PortStr("PRIVATE_APP")
    ELSE p

\* lines 457-462
ClassifyPortnum(p) ==
    IF p.kind = "absent" \/ (p.kind = "int" /\ p.n = 0) THEN PortStr("UNKNOWN_APP")
    ELSE IF p.kind = "int" /\ p.n >= 256 THEN PortStr("PRIVATE_APP")
    ELSE p

MetricRow(pkt, payload_size) ==
    [portnum |-> ClassifyPortnum(pkt.portnum),
     source_id |-> Str(pkt.from),
     destination_id |-> IF Truthy(pkt.to) THEN Str(pkt.to) ELSE None,
     message_size_bytes |-> payload_size]

\* INSERT INTO mesh_packet_metrics ..., lines 464-490, and the handler at 501
PpMetric ==
    /\ ev.pc = "pp_metric"
    /\ \E o \in Outcomes :
        /\ AfterStmt(o)
        /\ IF o = "ok"
           THEN /\ mesh_packet_metrics' = Append(mesh_packet_metrics,
                                                  MetricRow(ev.pkt, ev.payload_size))
                /\ ApplyEv(Res(Over([ev EXCEPT !.stored = TRUE])), 0, 1)
           ELSE /\ UNCHANGED mesh_packet_metrics
                /\ ApplyEv(IF packet_catches(StmtError)
                           THEN [Res(Over([ev EXCEPT !.failed = TRUE])) EXCEPT !.err = 1]
                           ELSE Uncaught([ev EXCEPT !.failed = TRUE], StmtError), 0, 0)
    /\ UNCHANGED <<node_details, pending_nodes, nodes, running, db_conn, interface,
                   loaded, events, announced, otherVars>>

\* on_receive returns to the transport
Return ==
    /\ ev.pc = "done"
    /\ SetThread("ev", Local("idle"))
    /\ UNCHANGED <<node_details, mesh_packet_metrics, pending_nodes, nodes, stats,
                   running, db_conn, interface, tx_aborted, loaded, escaped, faults,
                   events, announced, otherVars>>


-----------------------------------------------------------------------------
(* The main thread: run, connect, bulk_check_nodes, cleanup *)

SetMain(pc) == SetThread("mn", [Local(pc) EXCEPT !.pc = pc])

\* connect, lines 236-243: both handles open, then ensure_node_exists(my num)
Connect ==
    /\ mn.pc = "init"
    /\ db_conn' = "open"
    /\ interface' = "open"
    /\ SetThread("mn", [Local("my_select") EXCEPT !.target = MyNode])
    /\ UNCHANGED <<node_details, mesh_packet_metrics, pending_nodes, nodes, stats,
                   running, tx_aborted, loaded, escaped, faults, events, announced, otherVars>>

\* connect fails on the database or on the device: run returns False
ConnectFail ==
    /\ mn.pc = "init"
    /\ \E d \in {"none", "open"} : db_conn' = d
    /\ SetMain("exited")
    /\ UNCHANGED <<node_details, mesh_packet_metrics, pending_nodes, nodes, stats,
                   running, interface, tx_aborted, loaded, escaped, faults, events,
                   announced, otherVars>>

\* _signal_handler, lines 82-84: SIGINT or SIGTERM arrives, at any time
\* after __init__ has installed the handler (lines 76-77)
Signal ==
    /\ running' = FALSE
    /\ signalled' = TRUE
    /\ UNCHANGED <<node_details, mesh_packet_metrics, pending_nodes, nodes, stats,
                   db_conn, interface, tx_aborted, thread, loaded, escaped, faults,
                   events, announced, storeVars, fnVars>>

\* while self.running, line 532, found false
LoopExit ==
    /\ mn.pc = "loop"
    /\ ~running
    /\ SetMain("cl_iface")
    /\ UNCHANGED <<node_details, mesh_packet_metrics, pending_nodes, nodes, stats,
                   running, db_conn, interface, tx_aborted, loaded, escaped, faults,
                   events, announced, otherVars>>

Known == {id \in NodeIds : nodes[id] # NoInfo}
Orders(S) == {q \in [1..Cardinality(S) -> S] : \A i, j \in 1..Cardinality(S) :
                                                    i # j => q[i] # q[j]}

\* bulk_check_nodes is entered, lines 369-378: the iteration over
\* self.interface.nodes.items() starts
SweepStart ==
    /\ mn.pc = "loop"
    /\ running
    /\ \E q \in Orders(Known) :
        SetThread("mn", [Local("sw_iter") EXCEPT !.todo = q,
                                                 !.size0 = Cardinality(Known)])
    /\ UNCHANGED <<node_details, mesh_packet_metrics, pending_nodes, nodes, stats,
                   running, db_conn, interface, tx_aborted, loaded, escaped, faults,
                   events, announced, otherVars>>

\* lines 385-392: the node number of a roster key
KeyConvertible(k) == (k.kind = "str" /\ StartsWith(k.text, <<"!">>) /\ IsHex(Tail(k.text)))
                     \/ k.kind = "int"
KeyNumber(k) == IF k.kind = "str" THEN ParseHex(Tail(k.text), ZERO) ELSE k.num

\* lines 394-397: the entry carries a real long name
SweepCandidate(info) ==
    /\ KeyConvertible(info.key)
    /\ info.longName # None
    /\ ~StartsWith(info.longName, NodeDash)

\* One round of the for loop, lines 378-421.  The dict iterator raises
\* RuntimeError when the roster has changed size since the loop began; the
\* error leaves bulk_check_nodes and run's handler goes to cleanup.  The
\* UPDATE raises in the argument merge, which the handler of line 419
\* catches; lines 411-417 run only after an UPDATE that was executed.
SweepIter ==
    /\ mn.pc = "sw_iter"
    /\ IF Cardinality(Known) # mn.size0
       THEN /\ SetMain("cl_iface")
            /\ UNCHANGED <<node_details, pending_nodes, faults, tx_aborted>>
       ELSE IF mn.todo = <<>> \/ mn.checked + 1 > MAX_CHECKS
       THEN /\ SetMain("loop")
            /\ UNCHANGED <<node_details, pending_nodes, faults, tx_aborted>>
       ELSE LET info == nodes[Head(mn.todo)]
                rest == [Forget(mn) EXCEPT !.todo = Tail(mn.todo),
                                           !.checked = mn.checked + 1]
                id == KeyNumber(info.key)
                l == [rest EXCEPT !.target = id, !.long = info.longName,
                                  !.short = IF info.shortName # None THEN info.shortName
                                            ELSE TempShort(id)]
            IN  IF ~SweepCandidate(info)
                THEN /\ SetThread("mn", rest)
                     /\ UNCHANGED <<node_details, pending_nodes, faults, tx_aborted>>
                ELSE IF UpdateError # "none"
                THEN /\ SetThread("mn", [rest EXCEPT !.target = id])
                     /\ UNCHANGED <<node_details, pending_nodes, faults, tx_aborted>>
                ELSE \E o \in Outcomes :
                        /\ AfterStmt(o)
                        /\ SetThread("mn", rest)
                        /\ IF o = "ok"
                           THEN /\ node_details' = ConditionalUpdate(l)
                                /\ pending_nodes' = IF UpdateMatches(id)
                                                    THEN pending_nodes \ {id}
                                                    ELSE pending_nodes
                           ELSE UNCHANGED <<node_details, pending_nodes>>
    /\ UNCHANGED <<mesh_packet_metrics, nodes, stats, running, db_conn,
                   interface, loaded, escaped, events, announced, otherVars>>

\* a close() that raises is one of the injected failures
CloseOutcomes == {closes \in BOOLEAN : ~closes => faults < MaxFaults}
AfterClose(closes) == faults' = IF closes THEN faults ELSE faults + 1

\* cleanup, lines 556-560: self.interface.close(); when close raises, the
\* handle stays as it is and the bare except goes on
CleanupInterface ==
    /\ mn.pc = "cl_iface"
    /\ \E closes \in CloseOutcomes :
        /\ interface' = IF closes THEN "closed" ELSE interface
        /\ AfterClose(closes)
    /\ SetMain("cl_db")
    /\ UNCHANGED <<node_details, mesh_packet_metrics, pending_nodes, nodes, stats,
                   running, db_conn, tx_aborted, loaded, escaped, events,
                   announced, otherVars>>

\* cleanup, lines 562-566: self.db_conn.close(), likewise
CleanupDb ==
    /\ mn.pc = "cl_db"
    /\ \E closes \in CloseOutcomes :
        /\ db_conn' = IF closes THEN "closed" ELSE db_conn
        /\ AfterClose(closes)
    /\ SetMain("exited")
    /\ UNCHANGED <<node_details, mesh_packet_metrics, pending_nodes, nodes, stats,
                   running, interface, tx_aborted, loaded, escaped, events,
                   announced, otherVars>>

\* The transport learns about node id: a key is added to the roster.
RosterLearn(id, info) ==
    /\ interface = "open"
    /\ nodes[id] # info
    /\ nodes[id] = NoInfo
    /\ nodes' = [nodes EXCEPT ![id] = info]
    /\ UNCHANGED <<node_details, mesh_packet_metrics, pending_nodes, stats, running,
                   db_conn, interface, tx_aborted, thread, loaded, escaped, faults,
                   events, announced, otherVars>>

\* The way to the database goes away while the collector is connected: the
\* connection psycopg2.connect returned at line 237 is dead from then on.
Outage ==
    /\ db_conn = "open"
    /\ server.up
    /\ db_conn' = "broken"
    /\ server' = [server EXCEPT !.up = FALSE]
    /\ UNCHANGED <<node_details, mesh_packet_metrics, pending_nodes, nodes, stats,
                   running, interface, tx_aborted, thread, loaded, escaped, faults,
                   events, announced, signalled, pool, call, hist, fnVars>>

\* The database is reachable again.  Nothing in the collector connects a
\* second time: self.db_conn is assigned at line 237 only.
Restored ==
    /\ ~server.up
    /\ server' = [server EXCEPT !.up = TRUE]
    /\ UNCHANGED <<collectorVars, pool, call, hist, fnVars>>

-----------------------------------------------------------------------------
(* RobustDBConnection, src/db_connection.py.  The pool follows psycopg2's  *)
(* ThreadedConnectionPool: getconn pops an idle connection or connects,     *)
(* putconn keeps a healthy connection while fewer than minconn are idle and *)
(* closes it otherwise, closeall closes every connection and marks the pool *)
(* closed, and a closed pool raises PoolError.  PoolError is no             *)
(* OperationalError and no InterfaceError.                                  *)
(*                                                                          *)
(* The connections checked out of the pool are kept as: the one the call in *)
(* progress has in hand (held), and the number of those that nobody will    *)
(* put back, lost by the call in progress (lostNow) or by an earlier call   *)
(* (lost).  A pool and a connection made during the call in progress are    *)
(* marked fresh; the marks stand for their identities.                      *)

max_retries == 5          \* the default of __init__
MINCONN == 1              \* ThreadedConnectionPool(1, 20, ...)
MAXCONN == 20

MaxCalls == 2             \* calls made on the store in one run

Conn(st, fresh) == [fresh |-> fresh, state |-> st]
Queries == {"select", "write", "bad"}    \* "bad": the statement raises a data error

NewPool == [fresh |-> TRUE, closed |-> FALSE, idle |-> <<Conn("good", TRUE)>>,
            held |-> <<>>, lost |-> 0, lostNow |-> 0]

\* len(pool._used)
UsedCount(p) == Len(p.held) + p.lost + p.lostNow

\* pool.putconn(conn, close): PoolError (and no change) on a closed pool or
\* for a connection the pool does not hold as checked out
PutConnRaises(p) == p.closed \/ p.held = <<>>
PutConn(p, close) ==
    IF PutConnRaises(p) THEN p
    ELSE [p EXCEPT !.held = <<>>,
                   !.idle = IF Len(p.idle) < MINCONN /\ ~close /\ p.held[1].state = "good"
                            THEN Append(p.idle, p.held[1]) ELSE p.idle]

\* pool.closeall(): every connection is closed; the keys of the checked-out
\* ones stay
CloseAll(p) == [p EXCEPT !.closed = TRUE, !.idle = <<>>]

\* a connection in hand is dropped without putconn: it stays checked out
Lose(p) == [p EXCEPT !.held = <<>>, !.lostNow = p.lostNow + Len(p.held)]

\* the server goes away: every open connection is lost
Sever(p) ==
    LET cut(c) == IF c.state = "good" THEN [c EXCEPT !.state = "broken"] ELSE c
    IN  [p EXCEPT !.idle = [i \in 1..Len(p.idle) |-> cut(p.idle[i])],
                  !.held = [i \in 1..Len(p.held) |-> cut(p.held[i])]]

\* a new call begins: nothing is fresh any more
Aged(p) ==
    LET old(c) == [c EXCEPT !.fresh = FALSE]
    IN  [p EXCEPT !.fresh = FALSE, !.idle = [i \in 1..Len(p.idle) |-> old(p.idle[i])],
                  !.lost = p.lost + p.lostNow, !.lostNow = 0]

IdleCall == [pc |-> "idle", query |-> "select", health |-> FALSE, attempt |-> 0,
             inner |-> 0, result |-> "none"]
NewHist(n, p, s) ==
    [calls |-> n, acquired |-> 0, runs |-> 0, okruns |-> 0, firstFailed |-> FALSE,
     clean |-> TRUE, exhausted |-> FALSE, closed0 |-> p.closed, idle0 |-> Len(p.idle),
     data0 |-> s.data, trail |-> <<>>]

\* What the store has done since the last connection-class failure of the
\* call in progress (hist.trail): the seconds of every time.sleep, and
\* RECREATED for every pool that recreate_pool has put in place.
RECREATED == 0
\* time.sleep(2 ** attempt), lines 51 and 86
Backoff(attempt) == 2 ^ attempt

StoreInit ==
    /\ pool = Aged(NewPool)
    /\ server = [data |-> 0, up |-> TRUE]
    /\ call = IdleCall
    /\ hist = NewHist(0, Aged(NewPool), [data |-> 0, up |-> TRUE])

\* what every step of a call records: after the first attempt has failed,
\* the store counts as healthy only while each step finds the server up
Seen(h) == [h EXCEPT !.clean = h.clean /\ (h.firstFailed => server.up)]

\* acquisitions are counted up to one more than max_retries
Acquired(h) == [h EXCEPT !.acquired = IF h.acquired > max_retries THEN h.acquired
                                      ELSE h.acquired + 1]

StoreStep(c, h, p, s) ==
    /\ call' = c
    /\ hist' = h
    /\ pool' = p
    /\ server' = s
    /\ UNCHANGED <<collectorVars, fnVars>>

\* execute_with_retry is over with outcome res: a value it returns or the
\* class of the exception it raises
End(c, res) == [c EXCEPT !.pc = "done", !.result = res]

\* lines 78-88 once the connection, if any, has been put back: the next
\* round of the loop after the sleep, or the error is raised
OuterFailCall(c) ==
    IF c.attempt < max_retries - 1
    THEN [c EXCEPT !.pc = "getconn", !.attempt = c.attempt + 1, !.inner = 0]
    ELSE End(c, "OperationalError")
OuterFailHist(c, h) ==
    [h EXCEPT !.firstFailed = TRUE, !.exhausted = (c.attempt >= max_retries - 1),
              !.trail = IF c.attempt < max_retries - 1 THEN <<Backoff(c.attempt)>>
                        ELSE <<>>]

\* execute_with_retry(query, params) is called
Call(q) ==
    /\ call.pc = "idle"
    /\ hist.calls < MaxCalls
    /\ StoreStep([IdleCall EXCEPT !.pc = "getconn", !.query = q],
                 NewHist(hist.calls + 1, pool, server), Aged(pool), server)

\* check_connection_health() is called: execute_with_retry("SELECT NOW()")
HealthCall ==
    /\ call.pc = "idle"
    /\ hist.calls < MaxCalls
    /\ StoreStep([IdleCall EXCEPT !.pc = "getconn", !.query = "select", !.health = TRUE],
                 NewHist(hist.calls + 1, pool, server), Aged(pool), server)

\* get_connection's handler, lines 48-54: sleep and recreate_pool, or raise
\* to execute_with_retry, whose conn is still None
GetFailCall(c) ==
    IF c.inner < max_retries - 1 THEN [c EXCEPT !.pc = "recreate"]
    ELSE OuterFailCall(c)
GetFailHist(c, h) ==
    IF c.inner < max_retries - 1 THEN [h EXCEPT !.trail = <<Backoff(c.inner)>>]
    ELSE OuterFailHist(c, h)

\* self.connection_pool.getconn(), line 43
GetConn ==
    /\ call.pc = "getconn"
    /\ LET h == Seen(hist)
       IN  IF pool.closed \/ (pool.idle = <<>> /\ UsedCount(pool) = MAXCONN)
           THEN \* PoolError: not retried, raised by the handler at line 89
                StoreStep(End(call, "PoolError"), h, pool, server)
           ELSE IF pool.idle # <<>>
           THEN StoreStep([call EXCEPT !.pc = "test"], Acquired(h),
                          [pool EXCEPT !.idle = SubSeq(pool.idle, 1, Len(pool.idle) - 1),
                                       !.held = <<pool.idle[Len(pool.idle)]>>],
                          server)
           ELSE IF server.up
           THEN StoreStep([call EXCEPT !.pc = "test"], Acquired(h),
                          [pool EXCEPT !.held = <<Conn("good", TRUE)>>], server)
           ELSE \* psycopg2.connect raises OperationalError
                StoreStep(GetFailCall(call), GetFailHist(call, h), pool, server)

\* the liveness test, lines 45-47: SELECT 1 on the connection; when it fails
\* the connection is not put back
TestConn ==
    /\ call.pc = "test"
    /\ LET h == Seen(hist)
       IN  IF pool.held[1].state = "good"
           THEN StoreStep([call EXCEPT !.pc = "run"], h, pool, server)
           ELSE StoreStep(GetFailCall(call), GetFailHist(call, h), Lose(pool), server)

\* recreate_pool, lines 57-64, after the sleep of line 51: closeall, whose
\* errors are swallowed, then create_pool, which connects minconn times and
\* whose error leaves the old pool in place and leaves get_connection
Recreate ==
    /\ call.pc = "recreate"
    /\ LET h == Seen(hist)
           old == IF pool.closed THEN pool ELSE CloseAll(pool)
       IN  IF server.up
           THEN StoreStep([call EXCEPT !.pc = "getconn", !.inner = call.inner + 1],
                          [h EXCEPT !.trail = Append(h.trail, RECREATED)],
                          NewPool, server)
           ELSE StoreStep(OuterFailCall(call), OuterFailHist(call, h), old, server)

\* the handler of lines 78-88 with a connection in hand: putconn(close=True),
\* then as above; the putconn of the finally clause raises PoolError, which
\* is swallowed
ConnFail(h) ==
    StoreStep(OuterFailCall(call), OuterFailHist(call, h), PutConn(pool, TRUE), server)

\* the classes of the errors the store meets
STORE_EXCEPTIONS == {"OperationalError", "InterfaceError", "PoolError", "DataError"}
\* a handler for every exception
catches_exception(e) == e \in STORE_EXCEPTIONS
\* except (psycopg2.OperationalError, psycopg2.InterfaceError), line 78
retry_catches(e) == e \in {"OperationalError", "InterfaceError"}

\* cur.execute(query, params), lines 72-75 and 89-92
RunOp ==
    /\ call.pc = "run"
    /\ LET h == [Seen(hist) EXCEPT !.runs = hist.runs + 1]
       IN  IF pool.held[1].state # "good" THEN ConnFail(h)
           ELSE IF call.query = "bad"
           THEN IF retry_catches("DataError") THEN ConnFail(h)
                ELSE \* a data error: putconn at line 91, raise
                     StoreStep(End(call, "DataError"), h, PutConn(pool, FALSE), server)
           ELSE IF call.query = "select"
           THEN StoreStep(End(call, "rows"), [h EXCEPT !.okruns = h.okruns + 1],
                          PutConn(pool, FALSE), server)
           ELSE StoreStep([call EXCEPT !.pc = "commit"], h, pool, server)

\* conn.commit(), lines 76-77
Commit ==
    /\ call.pc = "commit"
    /\ LET h == Seen(hist)
       IN  IF pool.held[1].state # "good" THEN ConnFail(h)
           ELSE StoreStep(End(call, "True"), [h EXCEPT !.okruns = h.okruns + 1],
                          PutConn(pool, FALSE),
                          [server EXCEPT !.data = server.data + 1])

\* what the caller of the public method gets: check_connection_health turns
\* a return into True and an exception into False, lines 102-108
Raised == call.result \in {"OperationalError", "PoolError", "DataError"}
Returned == IF call.health
            THEN [value |-> IF Raised THEN "False" ELSE "True", raised |-> FALSE]
            ELSE [value |-> call.result, raised |-> Raised]

\* the call returns to its caller
Finish ==
    /\ call.pc = "done"
    /\ StoreStep([call EXCEPT !.pc = "idle"], hist, pool, server)

\* the server, or the way to it, goes away and comes back
ServerDown ==
    /\ server.up
    /\ call.pc # "done"
    /\ StoreStep(call, [hist EXCEPT !.clean = hist.clean /\ ~hist.firstFailed],
                 Sever(pool), [server EXCEPT !.up = FALSE])
ServerUp ==
    /\ ~server.up
    /\ call.pc # "done"
    /\ StoreStep(call, hist, pool, [server EXCEPT !.up = TRUE])

StoreNext ==
    \/ \E q \in Queries : Call(q)
    \/ HealthCall
    \/ GetConn
    \/ TestConn
    \/ Recreate
    \/ RunOp
    \/ Commit
    \/ Finish
    \/ ServerDown
    \/ ServerUp

-----------------------------------------------------------------------------
(* The functions of the collector applied to single inputs *)

\* arg: the input of one call; ret: what the call gave
NoArg == [pkt |-> NoPacket, ident |-> <<None, None, 0>>, form |-> "none"]
NoRet == [result |-> NoResult, fn |-> "none", rows |-> <<>>, ensured |-> <<>>]

\* Identities <<long_name, short_name, hw_model>>: 'Sydney-BNS1'/'BNS1' on a
\* RAK4631, on hardware 0 and on hardware 300, which the table does not
\* list, a long name with a double quote in it, a long name with a letter
\* outside ASCII, and the names the collector synthesizes.
Quoted == <<"a", "\"", "b">>
Accent == <<"J", "o", "s", EACUTE>>
Idents == {<<Bns, B1, 9>>, <<Bns, B1, 0>>, <<Bns, B1, 300>>, <<Quoted, B1, 9>>,
           <<Accent, S1, 0>>,
           <<TempLong(Node1), TempShort(Node1), 0>>}

\* The forms in which the transport hands an identity over as
\* decoded['payload']: an object with attributes, a dict with snake_case or
\* with camelCase keys, the serialized User message, and its debug text.
Forms == {"attrs", "snake", "camel", "bytes", "text"}
Encode(ident, form) ==
    CASE form = "attrs" -> AttrPayload(ident[1], ident[2], ident[3])
      [] form = "snake" -> DictPayload(ident[1], ident[2], ident[3])
      [] form = "camel" -> CamelPayload(ident[1], ident[2], ident[3])
      [] form = "bytes" -> BytesPayload(SerializeToString(ident[1], ident[2], ident[3]))
      [] OTHER -> StrPayload(DebugString(ident[1], ident[2]))

\* 0x2f8a1c00
Dest == U32(12170, 7168)
\* packet['toId'], which the transport derives from packet['to']: '^all'
\* for the broadcast address, '!' and eight hex digits for every other
ALL == <<"^", "a", "l", "l">>
ToId(to) == IF to = BROADCAST THEN ALL ELSE HexId(to)

\* Packets for process_packet: with and without a source, addressed to
\* nobody, to all, to Node2 and to 0x2f8a1c00, every kind of portnum, and
\* no payload, a binary payload, a text payload of four characters and five
\* bytes, and a dict.
Portnums == {PortAbsent, PortInt(0), PortInt(1), PortInt(255), PortInt(256), PortInt(300),
             PortStr("NODEINFO_APP"), PortStr("TEXT_MESSAGE_APP")}
FnPackets == {[from |-> f, to |-> t, decoded |-> "dict", portnum |-> n, payload |-> pl] :
                 f \in {Node1, ZERO}, t \in {ZERO, BROADCAST, Node2, Dest}, n \in Portnums,
                 pl \in {NoPayload, BytesPayload(<<0, 255, 10>>), StrPayload(Accent),
                         DictPayload(Bns, B1, 9)}}

Args == [pkt : FnPackets, ident : Idents, form : Forms]

\* process_packet(arg.pkt) with every statement succeeding: the rows it
\* inserts into mesh_packet_metrics and the nodes it passes to
\* ensure_node_exists, in order
ProcessPacket ==
    /\ ret = NoRet
    /\ LET l0 == PacketStart([Local("idle") EXCEPT !.pkt = arg.pkt])
           l1 == EnsureExit(l0)
       IN  ret' = IF l0.pc # "src_select" THEN [NoRet EXCEPT !.fn = "process_packet"]
                  ELSE [NoRet EXCEPT !.fn = "process_packet",
                                     !.rows = <<MetricRow(l0.pkt, l0.payload_size)>>,
                                     !.ensured = IF l1.pc = "dst_select"
                                                 THEN <<l0.target, l1.target>>
                                                 ELSE <<l0.target>>]
    /\ UNCHANGED <<collectorVars, storeVars, arg>>

\* process_nodeinfo_payload(node_id, payload) up to its statement, for the
\* payload that carries arg.ident in the form arg.form
ProcessNodeinfo ==
    /\ ret = NoRet
    /\ ret' = [NoRet EXCEPT !.fn = "process_nodeinfo_payload",
                            !.result = ParseNodeinfo(Encode(arg.ident, arg.form))]
    /\ UNCHANGED <<collectorVars, storeVars, arg>>

-----------------------------------------------------------------------------
(* The specifications *)

\* the collector after __init__ and the store after its __init__
Start ==
    /\ node_details = [k \in StrIds |-> NoRow]
    /\ mesh_packet_metrics = <<>>
    /\ pending_nodes = {}
    /\ nodes = [id \in NodeIds |-> NoInfo]
    /\ stats = [packets_received |-> 0, packets_stored |-> 0, packets_errors |-> 0,
                nodeinfo_direct_updates |-> 0]
    /\ running = FALSE
    /\ db_conn = "none"
    /\ interface = "none"
    /\ tx_aborted = FALSE
    /\ thread = [t \in {"ev", "mn"} |-> IF t = "ev" THEN Local("idle") ELSE Local("init")]
    /\ loaded \in BOOLEAN
    /\ escaped = FALSE
    /\ faults = 0
    /\ events = 0
    /\ announced = [k \in StrIds |-> NoRow]
    /\ signalled = FALSE
    /\ StoreInit
    /\ ret = NoRet

Init == Start /\ arg = NoArg

Next ==
    \/ \E p \in Packets : Receive(p)
    \/ NiUpsert
    \/ PendingCheck
    \/ PendingDel
    \/ FbUpdate
    \/ \E t \in {"ev", "mn"} : EnsureSelect(t)
    \/ \E t \in {"ev", "mn"} : EnsureNames(t)
    \/ \E t \in {"ev", "mn"} : EnsureInsert(t)
    \/ PpMetric
    \/ Return
    \/ Connect
    \/ ConnectFail
    \/ SweepStart
    \/ SweepIter
    \/ CleanupInterface
    \/ CleanupDb
    \/ \E id \in NodeIds : \E info \in RosterInfos(id) : RosterLearn(id, info)

\* the collector while no shutdown signal arrives
Spec == Init /\ [][Next]_vars


\* the store under calls and outages
StoreSpec == Init /\ [][StoreNext]_vars

\* single calls of process_packet and process_nodeinfo_payload
FnInit == Start /\ arg \in Args
FnNext == ProcessPacket \/ ProcessNodeinfo
FnSpec == FnInit /\ [][FnNext]_vars

\* The collector with an outage of the database.  The callback thread, once
\* the transport has called on_receive, runs to the end of it.
EvStep == \/ NiUpsert
          \/ PendingCheck
          \/ PendingDel
          \/ FbUpdate
          \/ EnsureSelect("ev")
          \/ EnsureNames("ev")
          \/ EnsureInsert("ev")
          \/ PpMetric
          \/ Return
\* connect's ensure_node_exists for the device's own node
MnStep == \/ EnsureSelect("mn")
          \/ EnsureNames("mn")
          \/ EnsureInsert("mn")
\* run() up to its loop, the events, the roster and the outage; no sweep
\* cycle falls into the run
OutageNext ==
    \/ Connect
    \/ ConnectFail
    \/ MnStep
    \/ \E p \in Packets : Receive(p)
    \/ EvStep
    \/ Outage
    \/ Restored
    \/ \E info \in RosterInfos(Node1) : RosterLearn(Node1, info)
OutageSpec == Init /\ [][OutageNext]_vars /\ WF_vars(EvStep)

\* The collector with a main thread that goes on: connect's
\* ensure_node_exists runs to its end, the loop of run() calls
\* bulk_check_nodes again and again (lines 532-538), and cleanup, once
\* begun, is finished.
MainStep == \/ MnStep
            \/ SweepStart
            \/ SweepIter
            \/ CleanupInterface
            \/ CleanupDb
SweepSpec == Init /\ [][Next]_vars /\ WF_vars(MainStep)

\* The collector with SIGINT/SIGTERM: run() from its start to the end of
\* cleanup, the events, and a roster that learns about Node1
ShutdownNext ==
    \/ Connect
    \/ ConnectFail
    \/ MainStep
    \/ LoopExit
    \/ Signal
    \/ \E p \in Packets : Receive(p)
    \/ EvStep
    \/ \E info \in RosterInfos(Node1) : RosterLearn(Node1, info)
ShutdownSpec == Init /\ [][ShutdownNext]_vars


-----------------------------------------------------------------------------
(* Properties of the node directory *)

RowOf(id) == node_details[Str(id)]
Resolved(row) == row.present /\ ~LikeNodeDash(row)
Provisional(row) == row.present /\ LikeNodeDash(row)
\* a name of the shape the collector synthesizes: 'Node-...' or 'N...'
PlaceholderShaped(long, short) == StartsWith(long, NodeDash) \/ StartsWith(short, <<"N">>)
NamesOf(row) == <<row.long_name, row.short_name>>
Identity(row) == <<row.long_name, row.short_name, row.hardware_model>>

\* C1: non-regression.  A resolved row stays resolved in every step, and a
\* step that changes the long_name or short_name of a resolved row writes
\* names that are not placeholder-shaped: no write carrying placeholder-shaped
\* names (from ensure_node_exists, the direct upsert, the fallback lookup or
\* the sweep) changes the names of a resolved row.
C1_NonRegression ==
    [][\A id \in NodeIds :
          Resolved(RowOf(id)) =>
              /\ Resolved(RowOf(id)')
              /\ NamesOf(RowOf(id)') # NamesOf(RowOf(id)) =>
                     ~PlaceholderShaped(RowOf(id)'.long_name, RowOf(id)'.short_name)]_vars

\* C1 witness: ensure_node_exists has run for Node1 with nothing in the
\* roster, that is with the candidate 'Node-12345678'/'N5678', no statement has
\* failed, and the row of Node1 is resolved.
C1_Witness ==
    /\ ev.pc = "pp_metric"
    /\ ev.pkt.from = Node1
    /\ faults = 0
    /\ \A id \in NodeIds : nodes[id] = NoInfo
    /\ Resolved(RowOf(Node1))

Quiescent == ev.pc = "idle" /\ mn.pc \in {"init", "loop", "exited"}

\* C3: the pending-set invariant.  After every completed operation no node
\* whose row is resolved is a key of pending_nodes.
C3_PendingInvariant ==
    Quiescent => \A id \in NodeIds : Resolved(RowOf(id)) => id \notin pending_nodes

\* C4: referential completeness.  Every metric row's source has a
\* node_details row, and so has its destination unless that is NULL or the
\* broadcast sentinel.
C4_Referential ==
    \A i \in 1..Len(mesh_packet_metrics) :
        LET m == mesh_packet_metrics[i]
        IN  /\ m.source_id \in StrIds /\ node_details[m.source_id].present
            /\ (m.destination_id # None /\ m.destination_id # Str(BROADCAST))
                   => (m.destination_id \in StrIds /\ node_details[m.destination_id].present)

\* C5: error isolation.  No exception leaves on_receive, the callback
\* thread is never lost, and no event leaves the connection in a failed
\* transaction, so that the statements of the next event are executed as
\* they would have been without the failed event.
C5_Isolation == ~escaped /\ ev.pc # "dead" /\ ~tx_aborted

\* C5 witness: the first event failed at a statement and was counted as an
\* error; the second event began after it and has been stored without any
\* failure.
C5_Witness ==
    /\ ev.pc = "done"
    /\ ~ev.failed
    /\ events = 2
    /\ faults = 1
    /\ ev.errs0 = 1
    /\ stats.packets_errors = 1
    /\ stats.packets_stored = 1
    /\ Len(mesh_packet_metrics) = 1

\* C6: every failure is counted.  When a statement or a helper of the event
\* failed, packets_errors is greater at the end of on_receive than at its
\* beginning.
C6_FailureCounted ==
    (ev.pc = "done" /\ ev.failed) => stats.packets_errors > ev.errs0

\* C11: recovery from a transient storage failure.  Once the connection has
\* been lost and the database is reachable again (it then stays reachable),
\* every packet with a valid source that on_receive is given from then on
\* is eventually recorded as a metric row.
C11_Recovery ==
    (ev.late /\ ev.pc = "src_select") ~> (ev.pc = "done" /\ ev.stored)

\* C14: the size ceiling.  No event whose payload alone is larger than
\* packet_size_limit is persisted: every metric row has a message size of at
\* most packet_size_limit, and packets_stored counts the rows.
C14_SizeCeiling ==
    /\ \A i \in 1..Len(mesh_packet_metrics) :
           mesh_packet_metrics[i].message_size_bytes <= packet_size_limit
    /\ stats.packets_stored = Len(mesh_packet_metrics)

\* C15: the identity scenario.  While on_receive handles the announcement
\* {long_name 'Sydney-BNS1', short_name 'BNS1', hw_model 9} of node
\* 12345678, with the connection open and no statement failing, no step
\* creates a provisional row for the node, and at the end of the event the
\* node's row is there with those names and hardware_model 'RAK4631' and the
\* node is not pending, whatever the directory held before.
C15_IdentityScenario ==
    [][(ev'.ident = <<Bns, B1, 9>> /\ faults' = 0 /\ db_conn' = "open") =>
          /\ (~RowOf(Node1).present /\ RowOf(Node1)'.present) => Resolved(RowOf(Node1)')
          /\ ev'.pc = "done" =>
                 /\ Identity(RowOf(Node1)') = <<Bns, B1, "RAK4631">>
                 /\ Resolved(RowOf(Node1)')
                 /\ Node1 \notin pending_nodes']_vars

\* C17: names change only by promotion.  A step that changes the long_name
\* or short_name of a row that exists changes a provisional row and writes
\* names that are not placeholder-shaped; the names of a resolved row are
\* left as they are by every write.
C17_OnlyPromotion ==
    [][\A id \in NodeIds :
          (RowOf(id).present /\ NamesOf(RowOf(id)') # NamesOf(RowOf(id))) =>
              /\ Provisional(RowOf(id))
              /\ ~PlaceholderShaped(RowOf(id)'.long_name, RowOf(id)'.short_name)]_vars

\* what C18 compares of a row
Contents(row) == <<row.long_name, row.short_name, row.hardware_model, row.role, row.position>>

\* the direct path stands in an application of a candidate that a direct
\* upsert has written before (every announcement that passes the
\* validation carries the same identity)
SecondDirect(id) ==
    /\ ev.target = id
    /\ announced[Str(id)].present
    /\ \/ /\ ev.pc = "ni_upsert"
          /\ stats.nodeinfo_direct_updates >= 1
          /\ Identity(announced[Str(id)]) = <<ev.long, ev.short, ev.hw>>
       \/ /\ ev.pc \in {"ni_check", "ni_del"}
          /\ stats.nodeinfo_direct_updates >= 2
\* the sweep stands before a roster entry whose names the row of the node
\* carries already
SecondSweep(id) ==
    /\ mn.pc = "sw_iter"
    /\ mn.todo # <<>>
    /\ SweepCandidate(nodes[Head(mn.todo)])
    /\ KeyNumber(nodes[Head(mn.todo)].key) = id
    /\ RowOf(id).present
    /\ RowOf(id).long_name = nodes[Head(mn.todo)].longName

-----------------------------------------------------------------------------
\* the sweep examines an entry of the roster in this step
Examines == mn.pc = "sw_iter" /\ mn'.pc = "sw_iter" /\ mn'.checked = mn.checked + 1

\* C22: the sweep bound.  One cycle of bulk_check_nodes examines at most
\* MAX_CHECKS entries (and so issues at most MAX_CHECKS UPDATEs), and every
\* entry it examines is the entry of a node that is in pending_nodes.
C22_SweepBound ==
    [][Examines =>
          /\ mn'.checked <= MAX_CHECKS
          /\ KeyNumber(nodes[Head(mn.todo)].key) \in pending_nodes]_vars

\* the columns the claim keeps
KeptColumns(row) == <<row.role, row.mqtt_status, row.position, row.created_at>>
\* the upsert of process_nodeinfo_payload succeeds on the row of id, which
\* is there
DirectUpdates(id) ==
    /\ ev.pc = "ni_upsert" /\ ev'.pc = "ni_check"
    /\ ev.target = id
    /\ RowOf(id).present
\* every metric row there is stays the row it is
MetricsKept ==
    /\ Len(mesh_packet_metrics') >= Len(mesh_packet_metrics)
    /\ \A i \in 1..Len(mesh_packet_metrics) : mesh_packet_metrics'[i] = mesh_packet_metrics[i]
\* C29: the direct identity update of a row that exists leaves the row's
\* role, mqtt_status, position and created_at as they were, changes no
\* other node's row and changes nothing of the metric table; and no step of
\* any operation changes or removes a metric row once it is inserted.
C29_DirectFrame ==
    [][/\ \A id \in NodeIds :
             DirectUpdates(id) =>
                 /\ RowOf(id)'.present
                 /\ KeptColumns(RowOf(id)') = KeptColumns(RowOf(id))
                 /\ \A other \in NodeIds \ {id} : RowOf(other)' = RowOf(other)
                 /\ mesh_packet_metrics' = mesh_packet_metrics
       /\ MetricsKept]_vars

\* C29 witness: the row of a node was inserted by ensure_node_exists with
\* the roster's role and position, a later event's direct upsert has
\* rewritten its identity, and a metric row has been inserted
C29_Witness ==
    \E id \in NodeIds :
        /\ announced[Str(id)].present
        /\ Identity(RowOf(id)) = Identity(announced[Str(id)])
        /\ RowOf(id).role = "ROUTER"
        /\ RowOf(id).position # NoPosition
        /\ RowOf(id).created_at < RowOf(id).updated_at
        /\ Len(mesh_packet_metrics) > 0

-----------------------------------------------------------------------------
\* run() has left its loop
Stopped == mn.pc \in {"cl_iface", "cl_db", "exited"}
\* the roster holds an entry with a real long name for node id
RosterResolves(id) == SweepCandidate(nodes[id]) /\ KeyNumber(nodes[id].key) = id

\* C23: sweep progress.  When a node has a provisional row and the roster
\* holds a real long name for it (an entry, once in the roster, stays), then
\* with the sweep repeated for as long as run() is in its loop the row is
\* eventually resolved and the node not in pending_nodes.
C23_SweepProgress ==
    \A id \in NodeIds :
        (Provisional(RowOf(id)) /\ RosterResolves(id))
            ~> ((Resolved(RowOf(id)) /\ id \notin pending_nodes) \/ Stopped)

\* the names of the row of node id after process_nodeinfo_payload has
\* handled an announcement of the candidate (long, short)
DirectNames(id, long, short) ==
    LET d == ParseNodeinfo(DictPayload(long, short, 0))
        l == [Local("ni_upsert") EXCEPT !.target = id, !.long = d.long,
                                        !.short = d.short, !.hw = d.hw]
    IN  IF d.ok THEN NamesOf(DirectUpsert(l)[Str(id)]) ELSE NamesOf(RowOf(id))

\* the sweep handles the roster entry of node id in this step, and the
\* fallback lookup executes its statement for node id, no statement failing
SweepsEntry(id) == /\ Examines
                   /\ KeyNumber(nodes[Head(mn.todo)].key) = id
                   /\ faults' = faults
FallsBack(id) == ev.pc = "fb_update" /\ ev.target = id /\ ev' # ev /\ faults' = faults

\* C24: reconcile applies the rule of the direct upsert.  When the sweep or
\* the fallback lookup handles the roster's names of a node that has a row,
\* with the connection usable, the row's names after the step are the names
\* it would have after a direct identity upsert of the same candidate: both
\* change them or both leave them, and both write the same names.
C24_SameRule ==
    [][\A id \in NodeIds :
          (RowOf(id).present /\ DbUsable /\ (SweepsEntry(id) \/ FallsBack(id)))
              => NamesOf(RowOf(id)') =
                     DirectNames(id, nodes[id].longName, nodes[id].shortName)]_vars

\* the INSERT of ensure_node_exists on thread t meets a row of its node in
\* this step: IntegrityError for the duplicate key
Collides(t) ==
    /\ thread[t].pc \in {"src_insert", "dst_insert", "my_insert"}
    /\ thread'[t] # thread[t]
    /\ RowOf(thread[t].target).present
    /\ DbUsable
    /\ faults' = faults

\* C27: a duplicate insert is benign.  When the INSERT of ensure_node_exists
\* collides with a row that is there, the row stays as it is, no error is
\* counted and none leaves the function, the call has not made its node a
\* key of pending_nodes, and the caller goes on: process_packet to the next
\* ensure_node_exists or to the metric INSERT, connect to the loop of run().
C27_DuplicateBenign ==
    [][\A t \in {"ev", "mn"}, id \in NodeIds :
          (Collides(t) /\ thread[t].target = id) =>
              /\ RowOf(id)' = RowOf(id)
              /\ stats'.packets_errors = stats.packets_errors
              /\ ~escaped' /\ ~thread'[t].failed
              /\ ~thread[t].added
              /\ thread'[t].pc \in {"dst_select", "pp_metric", "loop"}]_vars


\* the main thread evaluates while self.running after a signal was handled
ChecksAfterSignal == signalled /\ mn.pc = "loop" /\ mn' # mn
\* cleanup is entered from run()'s loop only, runs interface.close() and
\* then db_conn.close() whatever the first did, and is never entered again
CleansInOrder ==
    /\ mn.pc = "cl_iface" /\ mn' # mn => mn'.pc = "cl_db" /\ db_conn' = db_conn
    /\ mn.pc = "cl_db" /\ mn' # mn => mn'.pc = "exited" /\ interface' = interface
    /\ mn.pc = "exited" => mn'.pc = "exited"
    /\ db_conn' = "closed" /\ db_conn # "closed" => mn.pc = "cl_db"
\* with the storage connection closed by cleanup, no metric row is added
\* and packets_stored stands still
NothingStoredAfterClose ==
    db_conn = "closed" => /\ mesh_packet_metrics' = mesh_packet_metrics
                          /\ stats'.packets_stored = stats.packets_stored
\* C28: once a shutdown signal has cleared the run flag, the main thread's
\* next evaluation of the flag leaves the loop for cleanup; cleanup runs
\* once, closes the transport handle before the storage connection and
\* completes when a close fails; after the storage connection is closed no
\* event is recorded as stored
C28_Shutdown ==
    [][/\ ChecksAfterSignal => mn'.pc = "cl_iface"
       /\ CleansInOrder
       /\ NothingStoredAfterClose]_vars
\* the parts of C28 about cleanup alone
CleanupParts == [][CleansInOrder /\ NothingStoredAfterClose]_vars
(* Properties of the store *)

CallOver == call.pc = "done"
Expected(q) == IF q = "select" THEN "rows" ELSE "True"

\* C7: one-shot drop.  When the first attempt of an execute_with_retry call
\* (of a statement that raises no data error) has failed with a
\* connection-class error and the server has been up at every step since,
\* the call ends in its second attempt with the statement's result, the
\* statement having succeeded once.
C7_OneShotDrop ==
    (CallOver /\ ~call.health /\ call.query # "bad" /\ hist.firstFailed /\ hist.clean)
        => /\ call.result = Expected(call.query)
           /\ call.attempt = 1
           /\ hist.okruns = 1

\* C8: retry exhaustion.  When all max_retries attempts of a call have
\* failed with a connection-class error, the call raises that error and has
\* neither taken more than max_retries connections from the pool nor run
\* the statement more than max_retries times.
C8_RetryExhaustion ==
    (CallOver /\ hist.exhausted)
        => /\ call.result = "OperationalError"
           /\ hist.acquired <= max_retries
           /\ hist.runs <= max_retries

\* C9: no connection leak.  When a call is over, by return or by raise, no
\* connection it took from the pool is still checked out of the current
\* pool: what is checked out of an open pool is what was before the call.
C9_NoLeak ==
    (CallOver /\ ~pool.closed) => (pool.held = <<>> /\ pool.lostNow = 0)

\* C10: the health probe.  check_connection_health returns True or False,
\* True exactly when the probe statement succeeded, raises nothing, and
\* leaves the persisted data, the pool object and the pool's connections as
\* they were when it was called.
PoolUntouched ==
    /\ ~pool.fresh
    /\ pool.closed = hist.closed0
    /\ Len(pool.idle) = hist.idle0
    /\ \A i \in 1..Len(pool.idle) : ~pool.idle[i].fresh
    /\ pool.held = <<>>
    /\ pool.lostNow = 0
C10_HealthProbe ==
    (CallOver /\ call.health)
        => /\ ~Returned.raised
           /\ Returned.value \in {"True", "False"}
           /\ (Returned.value = "True") = (hist.okruns = 1)
           /\ server.data = hist.data0
           /\ PoolUntouched

-----------------------------------------------------------------------------
\* the statement raises a data error in this step: cur.execute is reached
\* with a connection that works, for a statement the server rejects
DataFails == /\ call.pc = "run"
             /\ call'.pc # "run"
             /\ call.query = "bad"
             /\ pool.held[1].state = "good"

\* C25: only connection-class failures are retried.  The step in which the
\* operation raises a data error ends the call with that error: no further
\* attempt, no sleep and no new pool, and the connection is back among the
\* pool's idle connections, none checked out by the call.  Without a
\* connection-class failure before it (hist.trail empty) the call has then
\* taken one connection and run the statement once.
C25_DataErrorNotRetried ==
    [][DataFails =>
          /\ call'.pc = "done"
          /\ call'.result = "DataError"
          /\ call'.attempt = call.attempt
          /\ hist'.trail = hist.trail
          /\ pool'.fresh = pool.fresh /\ ~pool'.closed
          /\ pool'.held = <<>> /\ pool'.lostNow = pool.lostNow
          /\ pool'.idle = Append(pool.idle, pool.held[1])
          /\ hist.trail = <<>> =>
                 (call'.attempt = 0 /\ hist'.runs = 1 /\ hist'.acquired = 1)]_vars

\* C25 witness: a call of a statement that raises a data error is over in
\* its first attempt with that error, the one connection idle in the pool
\* it was taken from.
C25_Witness ==
    /\ CallOver
    /\ call.query = "bad"
    /\ call.result = "DataError"
    /\ call.attempt = 0
    /\ hist.runs = 1
    /\ hist.trail = <<>>
    /\ ~pool.fresh
    /\ Len(pool.idle) = 1
    /\ pool.held = <<>>

\* an attempt of execute_with_retry has failed and the next one begins
NextAttempt == call'.attempt = call.attempt + 1

\* C26: the order of a retry.  When an attempt of execute_with_retry has
\* failed with a connection-class error and the next attempt begins, the
\* store has, since the failure, slept 2 ** attempt seconds (1, 2, 4, ...)
\* and after that put a new pool in place, and nothing else; the pool the
\* next attempt takes its connection from is that new pool.
C26_RetryOrder ==
    [][NextAttempt =>
          /\ hist'.trail = <<Backoff(call.attempt), RECREATED>>
          /\ pool'.fresh]_vars

-----------------------------------------------------------------------------
(* Properties of single calls *)

\* process_packet has returned for a packet with a source
Recorded == ret.fn = "process_packet" /\ Truthy(arg.pkt.from)

\* C12: portnum classification.  process_packet stores a portnum for every
\* packet: 'UNKNOWN_APP' when the event's portnum is 0 or absent,
\* 'PRIVATE_APP' when it is an integer of 256 or more, and the event's own
\* tag when that is a string.
C12_Portnum ==
    Recorded =>
        LET p == arg.pkt.portnum
            stored == ret.rows[1].portnum
        IN  /\ Len(ret.rows) = 1
            /\ (p.kind = "absent" \/ p = PortInt(0)) => stored = PortStr("UNKNOWN_APP")
            /\ (p.kind = "int" /\ p.n >= 256) => stored = PortStr("PRIVATE_APP")
            /\ p.kind = "str" => stored = p

\* C12 witness: a packet with portnum 256, the least private number, has
\* been stored as 'PRIVATE_APP'.
C12_Witness ==
    /\ Recorded
    /\ arg.pkt.portnum = PortInt(256)
    /\ ret.rows[1].portnum = PortStr("PRIVATE_APP")

\* the destination of the packet is recorded as its number in decimal, the
\* number of '!2f8a1c00' being n, and the broadcast address gets no upsert
DestinationRule(n) ==
    Recorded =>
        LET to == arg.pkt.to
            destination_id == ret.rows[1].destination_id
        IN  /\ ToId(to) = ALL =>
                   /\ destination_id = <<"4", "2", "9", "4", "9", "6", "7", "2", "9", "5">>
                   /\ \A i \in 1..Len(ret.ensured) : ret.ensured[i] # to
            /\ ToId(to) = <<"!", "2", "f", "8", "a", "1", "c", "0", "0">> =>
                   destination_id = n
            /\ (Truthy(to) /\ ToId(to) # ALL) =>
                   destination_id = Str(ParseHex(Tail(ToId(to)), ZERO))

\* C13, with the number of 0x2f8a1c00: a packet to '^all' is recorded with
\* destination 4294967295 and no ensure_node_exists for the destination; a
\* packet to '!2f8a1c00' is recorded with destination 797580288; every
\* packet to '!<hex>' is recorded with the unsigned 32-bit value of the hex
\* digits.
C13_Destination ==
    DestinationRule(<<"7", "9", "7", "5", "8", "0", "2", "8", "8">>)

\* C13 as stated: the same with '!2f8a1c00' recorded as 796731904.
C13_AsStated ==
    DestinationRule(<<"7", "9", "6", "7", "3", "1", "9", "0", "4">>)

\* C13 witness: a packet to '!2f8a1c00' has been recorded, its source and
\* its destination passed to ensure_node_exists.
C13_Witness ==
    /\ Recorded
    /\ ToId(arg.pkt.to) = <<"!", "2", "f", "8", "a", "1", "c", "0", "0">>
    /\ ret.ensured = <<Node1, Dest>>
    /\ ret.rows[1].destination_id = Str(Dest)

\* C16: cross-representation equivalence.  For an identity with non-empty
\* names that are not placeholder-shaped, process_nodeinfo_payload gives
\* the same outcome for the object, the dict with snake_case keys, the dict
\* with camelCase keys, the serialized message and the debug text: the
\* same long_name and short_name, or no result for all of them.
C16_CrossRepresentation ==
    (/\ ret.fn = "process_nodeinfo_payload"
     /\ arg.ident[1] # <<>> /\ arg.ident[2] # <<>>
     /\ ~PlaceholderShaped(arg.ident[1], arg.ident[2]))
        => \A f \in Forms :
               LET other == ParseNodeinfo(Encode(arg.ident, f))
               IN  /\ other.ok = ret.result.ok
                   /\ <<other.long, other.short>> = <<ret.result.long, ret.result.short>>

\* C19: the message size.  process_packet inserts exactly one metric row
\* for a packet with a source; message_size_bytes is the number of bytes of
\* a binary payload, the number of bytes of the UTF-8 encoding of a text
\* payload (one per character and one more for each character from U+0080
\* to U+07FF, which are all the model draws) and 0 without a payload; a
\* packet with portnum 0 and no payload is stored as 'UNKNOWN_APP' with
\* size 0.
C19_MessageSize ==
    Recorded =>
        LET payload == arg.pkt.payload
            row == ret.rows[1]
            wide == {i \in 1..Len(payload.data) : CodePoint(payload.data[i]) >= 128}
        IN  /\ Len(ret.rows) = 1
            /\ payload.shape = "bytes" => row.message_size_bytes = Len(payload.data)
            /\ payload.shape = "str" =>
                   row.message_size_bytes = Len(payload.data) + Cardinality(wide)
            /\ payload.shape = "none" => row.message_size_bytes = 0
            /\ (arg.pkt.portnum = PortInt(0) /\ payload.shape = "none") =>
                   /\ row.portnum = PortStr("UNKNOWN_APP")
                   /\ row.message_size_bytes = 0

\* C19 witness: the text payload 'Jos' and e-acute, four characters, has
\* been recorded with message_size_bytes 5.
C19_Witness ==
    /\ Recorded
    /\ arg.pkt.payload = StrPayload(Accent)
    /\ ret.rows[1].message_size_bytes = 5

\* the label of hardware code c: the table's for 0 and 9, which it lists
HwLabel(c) == CASE c = 0 -> "UNSET"
                [] c = 9 -> "RAK4631"
                [] OTHER -> "UNKNOWN_HW_" \o ToString(c)

\* C21: the hardware label.  process_nodeinfo_payload raises nothing while
\* it maps the hardware code; when it gives a result for an identity with
\* hardware code c, its hardware_model is the table's label of c, or
\* 'UNKNOWN_HW_<c>' for a code the table does not list; and every form of
\* the same identity that gives a result gives the same hardware_model.
C21_HardwareLabel ==
    ret.fn = "process_nodeinfo_payload" =>
        /\ ~ret.result.raised
        /\ ret.result.ok => ret.result.hw = HwLabel(arg.ident[3])
        /\ \A f \in Forms :
               LET other == ParseNodeinfo(Encode(arg.ident, f))
               IN  (ret.result.ok /\ other.ok) => other.hw = ret.result.hw

=============================================================================
